---- MODULE Spec2Model ----
(***************************************************************************)
(* Primary-side replication manager of NoisePage (terrier):                *)
(* src/src/replication/primary_replication_manager.cpp.                    *)
(*                                                                         *)
(* One commit thread calls ReplicateBatchOfRecords; the messenger's        *)
(* dispatch threads call Handle(TxnAppliedMsg).  The callback queue        *)
(* txn_callbacks_ and the table txns_applied_on_replicas_ are guarded by   *)
(* callbacks_mutex_.  A callback is identified by its txn_start_time_.     *)
(***************************************************************************)
EXTENDS Integers, Sequences, FiniteSets, TLC

\* ---------------------------------------------------------------- bounds
MaxCalls == 2        \* ReplicateBatchOfRecords calls in one behaviour
MaxBatchSize == 2    \* commit callbacks handed in by one call
MaxTxns == 3         \* transactions (commit callbacks) in one behaviour
IdBits == 3          \* width of the identifier counters (64 in the code)
MaxIdCalls == 4      \* standalone identifier requests per counter (SpecIds)

\* ------------------------------------------------------------- constants
IdMod == 2 ^ IdBits
INVALID_RECORD_BATCH_ID == 0
FirstBatchId == 1
FirstMsgId == 1

replicas_ == {"replica1", "replica2"}
Handlers == {"h1", "h2"}
Policies == {"DISABLE", "ASYNC", "SYNC"}
Txns == 1..MaxTxns

VARIABLES
  txn_callbacks_,             \* std::queue<BatchOfCommitCallbacks>
  txns_applied_on_replicas_,  \* txn id -> set of replica ids
  callbacks_mutex_,           \* "free" or the thread holding the lock
  next_batch_id_,             \* std::atomic<record_batch_id_t>
  next_msg_id_,               \* message id counter of the base class
  empty_buffer_queue_,        \* number of buffers handed back to the pool
  rb_pc,                      \* position of the commit thread
  rb_args,                    \* arguments of the call in progress
  rb_i,                       \* callbacks already invoked by the call
  h_pc,                       \* position of each dispatch thread
  h_msg,                      \* TxnAppliedMsg each dispatch thread handles
  calls,                      \* history: the calls of ReplicateBatchOfRecords
  invoked,                    \* history: txn ids in order of cb.fn_(cb.arg_)
  sent,                       \* history: RECORDS_BATCH envelopes sent
  acks,                       \* history: receipt acks sent, (replica, txn)
  received,                   \* history: notifications given to Handle
  issued_batch_ids,           \* history: results of GetNextBatchId
  issued_msg_ids,             \* history: results of GetNextMessageId
  aborted                     \* the NOISEPAGE_ASSERT fired

vars == <<txn_callbacks_, txns_applied_on_replicas_, callbacks_mutex_,
          next_batch_id_, next_msg_id_, empty_buffer_queue_, rb_pc, rb_args,
          rb_i, h_pc, h_msg, calls, invoked, sent, acks, received,
          issued_batch_ids, issued_msg_ids, aborted>>

ledger == <<txn_callbacks_, txns_applied_on_replicas_>>
ids == <<next_batch_id_, next_msg_id_, issued_batch_ids, issued_msg_ids>>
commit_thread == <<rb_pc, rb_args, rb_i>>
dispatch_threads == <<h_pc, h_msg>>

NoArgs == [has_records |-> FALSE, commit_callbacks |-> <<>>, policy |-> "ASYNC"]
NoMsg == [replica |-> "", txn |-> 0]

\* ------------------------------------------------------ sequence helpers
RECURSIVE SeqToSet(_)
SeqToSet(s) == IF s = <<>> THEN {} ELSE {Head(s)} \cup SeqToSet(Tail(s))

Count(s, x) == Cardinality({i \in 1..Len(s) : s[i] = x})

\* position of the first occurrence of x in s, 0 when absent
Pos(s, x) == IF \E i \in 1..Len(s) : s[i] = x
             THEN CHOOSE i \in 1..Len(s) : s[i] = x /\ \A j \in 1..(i-1) : s[j] # x
             ELSE 0

\* ------------------------------------------------------------ identifiers
\* the test for the sentinel left out
GetNextBatchId_NoSkip(counter) ==
  [id |-> counter, next |-> (counter + 1) % IdMod]

\* record_batch_id_t next_batch_id = next_batch_id_++;
\* if (next_batch_id_.load() == INVALID_RECORD_BATCH_ID) next_batch_id_++;
GetNextBatchId(counter) ==
  LET inc == (counter + 1) % IdMod
  IN  [id   |-> counter,
       next |-> IF inc = INVALID_RECORD_BATCH_ID THEN (inc + 1) % IdMod ELSE inc]

GetNextMessageId(counter) ==
  [id |-> counter, next |-> (counter + 1) % IdMod]

\* ----------------------------------------------------------------- ledger
BatchOfCommitCallbacks(callbacks, has_records) ==
  [callbacks_ |-> callbacks, has_records_ |-> has_records]

\* a container that counts a replica once per notification
MarkApplied_Counting(table, txn, replica) ==
  [t \in (DOMAIN table) \cup {txn} |->
     IF t = txn
     THEN IF txn \in DOMAIN table
          THEN IF replica \in table[txn]
               THEN table[txn] \cup {<<replica, "again">>}
               ELSE table[txn] \cup {replica}
          ELSE {replica}
     ELSE table[t]]

\* a multiset for the set: a second notification of a replica is kept as
\* a member of its own
MarkApplied_Multiset(table, txn, replica) ==
  [t \in (DOMAIN table) \cup {txn} |->
     IF t = txn
     THEN IF txn \in DOMAIN table
          THEN IF replica \in table[txn]
               THEN table[txn] \cup {IF replica = "replica1"
                                     THEN "replica1 again" ELSE "replica2 again"}
               ELSE table[txn] \cup {replica}
          ELSE {replica}
     ELSE table[t]]

\* find(txn) == end() ? emplace(txn, {}) ; at(txn).emplace(routing id)
MarkApplied(table, txn, replica) ==
  [t \in (DOMAIN table) \cup {txn} |->
     IF t = txn
     THEN (IF txn \in DOMAIN table THEN table[txn] ELSE {}) \cup {replica}
     ELSE table[t]]

\* the erase left out
EraseTxn_Forgotten(table, txn) == table

\* txns_applied_on_replicas_.erase(txn)
EraseTxn(table, txn) == [t \in (DOMAIN table) \ {txn} |-> table[t]]

\* the size comparison left out
AllReplicasApplied_AnyReplica(table, txn) == txn \in DOMAIN table

\* find(txn) != end() && at(txn).size() == replicas_.size()
AllReplicasApplied(table, txn) ==
  /\ txn \in DOMAIN table
  /\ Cardinality(table[txn]) = Cardinality(replicas_)

\* ProcessTxnCallbacks looking one batch ahead when the head is not ready
ProcessStep_LookAhead(L) ==
  IF L.q = <<>>
  THEN [L EXCEPT !.done = TRUE]
  ELSE LET item == Head(L.q) IN
       IF item.callbacks_ = <<>>
       THEN [L EXCEPT !.q = Tail(L.q)]
       ELSE IF AllReplicasApplied(L.tab, Head(item.callbacks_))
       THEN [L EXCEPT !.inv = Append(L.inv, Head(item.callbacks_)),
                      !.tab = EraseTxn(L.tab, Head(item.callbacks_)),
                      !.q = <<[item EXCEPT !.callbacks_ = Tail(item.callbacks_)]>>
                            \o Tail(L.q)]
       ELSE IF /\ Len(L.q) > 1
               /\ L.q[2].callbacks_ # <<>>
               /\ AllReplicasApplied(L.tab, Head(L.q[2].callbacks_))
       THEN [L EXCEPT !.inv = Append(L.inv, Head(L.q[2].callbacks_)),
                      !.tab = EraseTxn(L.tab, Head(L.q[2].callbacks_)),
                      !.q = <<item, [L.q[2] EXCEPT !.callbacks_ = Tail(L.q[2].callbacks_)]>>
                            \o Tail(Tail(L.q))]
       ELSE [L EXCEPT !.done = TRUE]

\* ProcessTxnCallbacks skipping a callback that is not ready to reach a
\* later one of the same batch
ProcessStep_SkipInBatch(L) ==
  IF L.q = <<>>
  THEN [L EXCEPT !.done = TRUE]
  ELSE LET item == Head(L.q)
           ready == {k \in 1..Len(item.callbacks_) :
                       AllReplicasApplied(L.tab, item.callbacks_[k])}
       IN
       IF item.callbacks_ = <<>>
       THEN [L EXCEPT !.q = Tail(L.q)]
       ELSE IF ready = {}
       THEN [L EXCEPT !.done = TRUE]
       ELSE LET k == CHOOSE x \in ready : \A y \in ready : x <= y
                rest == SubSeq(item.callbacks_, 1, k - 1)
                        \o SubSeq(item.callbacks_, k + 1, Len(item.callbacks_))
            IN  [L EXCEPT !.inv = Append(L.inv, item.callbacks_[k]),
                          !.tab = EraseTxn(L.tab, item.callbacks_[k]),
                          !.q = <<[item EXCEPT !.callbacks_ = rest]>> \o Tail(L.q)]

\* ProcessTxnCallbacks with "if" for "while": it returns once it has popped
\* the batch at the head
ProcessStep_OneBatch(L) ==
  IF L.q = <<>>
  THEN [L EXCEPT !.done = TRUE]
  ELSE LET item == Head(L.q) IN
       IF item.callbacks_ = <<>>
       THEN [L EXCEPT !.q = Tail(L.q), !.done = TRUE]
       ELSE IF ~AllReplicasApplied(L.tab, Head(item.callbacks_))
       THEN [L EXCEPT !.done = TRUE]
       ELSE [L EXCEPT !.inv = Append(L.inv, Head(item.callbacks_)),
                      !.tab = EraseTxn(L.tab, Head(item.callbacks_)),
                      !.q = <<[item EXCEPT !.callbacks_ = Tail(item.callbacks_)]>>
                            \o Tail(L.q)]

\* ProcessTxnCallbacks with the test of has_records_ inverted: a batch with
\* records is released whole without looking at the table
ProcessStep_InvertedFlag(L) ==
  IF L.q = <<>>
  THEN [L EXCEPT !.done = TRUE]
  ELSE LET item == Head(L.q) IN
       IF item.has_records_
       THEN [L EXCEPT !.inv = L.inv \o item.callbacks_, !.q = Tail(L.q)]
       ELSE IF item.callbacks_ = <<>>
       THEN [L EXCEPT !.q = Tail(L.q)]
       ELSE IF ~AllReplicasApplied(L.tab, Head(item.callbacks_))
       THEN [L EXCEPT !.done = TRUE]
       ELSE [L EXCEPT !.inv = Append(L.inv, Head(item.callbacks_)),
                      !.tab = EraseTxn(L.tab, Head(item.callbacks_)),
                      !.q = <<[item EXCEPT !.callbacks_ = Tail(item.callbacks_)]>>
                            \o Tail(L.q)]

\* ProcessTxnCallbacks erasing the last callback of the batch, not the one
\* it has just invoked
ProcessStep_EraseLast(L) ==
  IF L.q = <<>>
  THEN [L EXCEPT !.done = TRUE]
  ELSE LET item == Head(L.q) IN
       IF ~item.has_records_
       THEN [L EXCEPT !.inv = L.inv \o item.callbacks_, !.q = Tail(L.q)]
       ELSE IF item.callbacks_ = <<>>
       THEN [L EXCEPT !.q = Tail(L.q)]
       ELSE IF ~AllReplicasApplied(L.tab, Head(item.callbacks_))
       THEN [L EXCEPT !.done = TRUE]
       ELSE [L EXCEPT !.inv = Append(L.inv, Head(item.callbacks_)),
                      !.tab = EraseTxn(L.tab, Head(item.callbacks_)),
                      !.q = <<[item EXCEPT !.callbacks_ =
                                 SubSeq(item.callbacks_, 1, Len(item.callbacks_) - 1)]>>
                            \o Tail(L.q)]

\* ProcessTxnCallbacks with "break" for "return": the batch at the head is
\* popped although one of its callbacks is not ready
ProcessStep_BreakNotReturn(L) ==
  IF L.q = <<>>
  THEN [L EXCEPT !.done = TRUE]
  ELSE LET item == Head(L.q) IN
       IF ~item.has_records_
       THEN [L EXCEPT !.inv = L.inv \o item.callbacks_, !.q = Tail(L.q)]
       ELSE IF item.callbacks_ = <<>>
       THEN [L EXCEPT !.q = Tail(L.q)]
       ELSE IF ~AllReplicasApplied(L.tab, Head(item.callbacks_))
       THEN [L EXCEPT !.q = Tail(L.q)]
       ELSE [L EXCEPT !.inv = Append(L.inv, Head(item.callbacks_)),
                      !.tab = EraseTxn(L.tab, Head(item.callbacks_)),
                      !.q = <<[item EXCEPT !.callbacks_ = Tail(item.callbacks_)]>>
                            \o Tail(L.q)]

\* ProcessTxnCallbacks leaving the callback it has invoked in the batch
ProcessStep_KeepsCallback(L) ==
  IF L.q = <<>>
  THEN [L EXCEPT !.done = TRUE]
  ELSE LET item == Head(L.q) IN
       IF ~item.has_records_
       THEN [L EXCEPT !.inv = L.inv \o item.callbacks_, !.q = Tail(L.q)]
       ELSE IF item.callbacks_ = <<>>
       THEN [L EXCEPT !.q = Tail(L.q)]
       ELSE IF ~AllReplicasApplied(L.tab, Head(item.callbacks_))
       THEN [L EXCEPT !.done = TRUE]
       ELSE [L EXCEPT !.inv = Append(L.inv, Head(item.callbacks_)),
                      !.tab = EraseTxn(L.tab, Head(item.callbacks_))]

\* One pass of the loops of ProcessTxnCallbacks over the ledger
\* L = [q, tab, inv, done]: the queue, the table, the invocation log, and
\* whether the function has returned.
ProcessStep(L) ==
  IF L.q = <<>>
  THEN [L EXCEPT !.done = TRUE]                       \* while (!empty()) fails
  ELSE LET item == Head(L.q) IN
       IF ~item.has_records_
       THEN \* no records: execute all of the callbacks, pop
            [L EXCEPT !.inv = L.inv \o item.callbacks_, !.q = Tail(L.q)]
       ELSE IF item.callbacks_ = <<>>
       THEN \* vec_it == callbacks.end(): txn_callbacks_.pop()
            [L EXCEPT !.q = Tail(L.q)]
       ELSE LET callback == Head(item.callbacks_) IN
            IF ~AllReplicasApplied(L.tab, callback)
            THEN [L EXCEPT !.done = TRUE]             \* return
            ELSE \* callback.fn_(callback.arg_); erase(txn); callbacks.erase
                 [L EXCEPT !.inv = Append(L.inv, callback),
                           !.tab = EraseTxn(L.tab, callback),
                           !.q = <<[item EXCEPT !.callbacks_ = Tail(item.callbacks_)]>>
                                 \o Tail(L.q)]

\* ProcessTxnCallbacks run to its return
RECURSIVE ProcessAll(_)
ProcessAll(L) == IF L.done THEN L ELSE ProcessAll(ProcessStep(L))

\* lines 99-105: record the replica; Handle goes on to ProcessTxnCallbacks
\* only if replicas.size() == replicas_.size()
MarkStep(L, replica, txn) ==
  LET tab == MarkApplied(L.tab, txn, replica)
  IN  [L EXCEPT !.tab = tab,
                !.done = (Cardinality(tab[txn]) # Cardinality(replicas_))]

\* the locked block of Handle run to its end (lines 97-109)
HandleLocked(L, replica, txn) == ProcessAll(MarkStep(L, replica, txn))

Ledger == [q |-> txn_callbacks_, tab |-> txns_applied_on_replicas_,
           inv |-> invoked, done |-> FALSE]

\* ------------------------------------------------------------------- Init
\* the manager after construction, but for its two counters
InitLedger ==
  /\ txn_callbacks_ = <<>>
  /\ txns_applied_on_replicas_ = <<>>
  /\ callbacks_mutex_ = "free"
  /\ empty_buffer_queue_ = 0
  /\ rb_pc = "idle"
  /\ rb_args = NoArgs
  /\ rb_i = 0
  /\ h_pc = [h \in Handlers |-> "idle"]
  /\ h_msg = [h \in Handlers |-> NoMsg]
  /\ calls = <<>>
  /\ invoked = <<>>
  /\ sent = {}
  /\ acks = {}
  /\ received = {}
  /\ issued_batch_ids = <<>>
  /\ issued_msg_ids = <<>>
  /\ aborted = FALSE

Init ==
  /\ InitLedger
  /\ next_batch_id_ = FirstBatchId
  /\ next_msg_id_ = FirstMsgId

\* ------------------------------------------- ReplicateBatchOfRecords
RECURSIVE NumCallbacks(_)
NumCallbacks(cs) ==
  IF cs = <<>> THEN 0 ELSE Len(Head(cs).commit_callbacks) + NumCallbacks(Tail(cs))

\* the call returns to the commit path
RB_Return ==
  /\ rb_pc' = "idle"
  /\ rb_args' = NoArgs
  /\ rb_i' = 0
  /\ calls' = [calls EXCEPT ![Len(calls)].returned = TRUE]

\* the batch put at the front of the queue
Emplace_Front(q, batch) == <<batch>> \o q

\* txn_callbacks_.emplace(...): std::queue appends at the back
Emplace(q, batch) == Append(q, batch)

\* a forgotten "|| !has_records"
InvokesAtOnce_AsyncOnly(policy, has_records) == policy = "ASYNC"

\* line 49: policy == ASYNC || !has_records
InvokesAtOnce(policy, has_records) == policy = "ASYNC" \/ ~has_records

\* the assertion of line 35 left out: DISABLE goes on like SYNC
RB_Call_NoAssert(has_records, n, policy) ==
  /\ ~aborted
  /\ rb_pc = "idle"
  /\ Len(calls) < MaxCalls
  /\ NumCallbacks(calls) + n <= MaxTxns
  /\ LET first == NumCallbacks(calls)
         cbs == [k \in 1..n |-> first + k]
         args == [has_records |-> has_records, commit_callbacks |-> cbs,
                  policy |-> policy]
     IN  /\ calls' = Append(calls, [has_records |-> has_records,
                                    commit_callbacks |-> cbs,
                                    policy |-> policy, queued |-> FALSE,
                                    returned |-> FALSE])
         /\ aborted' = FALSE
         /\ rb_args' = args
         /\ rb_i' = 0
         /\ rb_pc' = IF InvokesAtOnce(policy, has_records)
                     THEN "invoke" ELSE "enqueue"
  /\ UNCHANGED <<ledger, callbacks_mutex_, ids, empty_buffer_queue_,
                 dispatch_threads, invoked, sent, acks, received>>

\* lines 32-49: entry, the assertion on the policy, has_records, the branch
RB_Call(has_records, n, policy) ==
  /\ ~aborted
  /\ rb_pc = "idle"
  /\ Len(calls) < MaxCalls
  /\ NumCallbacks(calls) + n <= MaxTxns
  /\ LET first == NumCallbacks(calls)
         cbs == [k \in 1..n |-> first + k]
         args == [has_records |-> has_records, commit_callbacks |-> cbs,
                  policy |-> policy]
     IN  /\ calls' = Append(calls, [has_records |-> has_records,
                                    commit_callbacks |-> cbs,
                                    policy |-> policy, queued |-> FALSE,
                                    returned |-> FALSE])
         /\ IF policy = "DISABLE"
            THEN /\ aborted' = TRUE
                 /\ UNCHANGED commit_thread
            ELSE /\ aborted' = FALSE
                 /\ rb_args' = args
                 /\ rb_i' = 0
                 /\ rb_pc' = IF InvokesAtOnce(policy, has_records)
                             THEN "invoke" ELSE "enqueue"
  /\ UNCHANGED <<ledger, callbacks_mutex_, ids, empty_buffer_queue_,
                 dispatch_threads, invoked, sent, acks, received>>

\* a missing "else": the callbacks invoked at once are queued as well
RB_Invoke_AlsoQueued ==
  /\ ~aborted
  /\ rb_pc = "invoke"
  /\ IF rb_i < Len(rb_args.commit_callbacks)
     THEN /\ invoked' = Append(invoked, rb_args.commit_callbacks[rb_i + 1])
          /\ rb_i' = rb_i + 1
          /\ UNCHANGED <<rb_pc, rb_args, calls>>
     ELSE /\ UNCHANGED invoked
          /\ IF rb_args.has_records
             THEN /\ rb_pc' = "enqueue"
                  /\ UNCHANGED <<rb_args, rb_i, calls>>
             ELSE RB_Return
  /\ UNCHANGED <<ledger, callbacks_mutex_, ids, empty_buffer_queue_,
                 dispatch_threads, sent, acks, received, aborted>>

\* the records are sent in the "else" branch only
RB_Invoke_NoSend ==
  /\ ~aborted
  /\ rb_pc = "invoke"
  /\ IF rb_i < Len(rb_args.commit_callbacks)
     THEN /\ invoked' = Append(invoked, rb_args.commit_callbacks[rb_i + 1])
          /\ rb_i' = rb_i + 1
          /\ UNCHANGED <<rb_pc, rb_args, calls>>
     ELSE /\ UNCHANGED invoked
          /\ RB_Return
  /\ UNCHANGED <<ledger, callbacks_mutex_, ids, empty_buffer_queue_,
                 dispatch_threads, sent, acks, received, aborted>>

\* lines 51-53: one turn of the loop that invokes the callbacks at once
RB_Invoke ==
  /\ ~aborted
  /\ rb_pc = "invoke"
  /\ IF rb_i < Len(rb_args.commit_callbacks)
     THEN /\ invoked' = Append(invoked, rb_args.commit_callbacks[rb_i + 1])
          /\ rb_i' = rb_i + 1
          /\ UNCHANGED <<rb_pc, rb_args, calls>>
     ELSE /\ UNCHANGED invoked
          /\ IF rb_args.has_records
             THEN /\ rb_pc' = "send"
                  /\ UNCHANGED <<rb_args, rb_i, calls>>
             ELSE RB_Return
  /\ UNCHANGED <<ledger, callbacks_mutex_, ids, empty_buffer_queue_,
                 dispatch_threads, sent, acks, received, aborted>>

\* the batch queued without taking callbacks_mutex_
RB_Enqueue_NoLock ==
  /\ ~aborted
  /\ rb_pc = "enqueue"
  /\ txn_callbacks_' = Emplace(txn_callbacks_,
        BatchOfCommitCallbacks(rb_args.commit_callbacks, rb_args.has_records))
  /\ IF rb_args.has_records
     THEN /\ rb_pc' = "send"
          /\ calls' = [calls EXCEPT ![Len(calls)].queued = TRUE]
          /\ UNCHANGED <<rb_args, rb_i>>
     ELSE /\ rb_pc' = "idle"
          /\ rb_args' = NoArgs
          /\ rb_i' = 0
          /\ calls' = [calls EXCEPT ![Len(calls)].queued = TRUE,
                                    ![Len(calls)].returned = TRUE]
  /\ UNCHANGED <<txns_applied_on_replicas_, callbacks_mutex_, ids,
                 empty_buffer_queue_, dispatch_threads, invoked, sent, acks,
                 received, aborted>>

\* the two halves of ReplicateBatchOfRecords swapped: the records are sent
\* first (rb_i = 0), the batch of callbacks is queued afterwards (rb_i = 1)
RB_Enqueue_AfterSend ==
  /\ ~aborted
  /\ rb_pc = "enqueue"
  /\ IF rb_i = 0
     THEN /\ LET m == GetNextMessageId(next_msg_id_)
                 b == GetNextBatchId(next_batch_id_)
             IN  /\ next_msg_id_' = m.next
                 /\ next_batch_id_' = b.next
                 /\ issued_msg_ids' = Append(issued_msg_ids, m.id)
                 /\ issued_batch_ids' = Append(issued_batch_ids, b.id)
                 /\ sent' = sent \cup
                       {[dest |-> r, type |-> "RECORDS_BATCH", msg_id |-> m.id,
                         batch_id |-> b.id,
                         txns |-> SeqToSet(rb_args.commit_callbacks),
                         call |-> Len(calls)] : r \in replicas_}
          /\ rb_i' = 1
          /\ UNCHANGED <<txn_callbacks_, rb_pc, rb_args, calls>>
     ELSE /\ callbacks_mutex_ = "free"
          /\ txn_callbacks_' = Emplace(txn_callbacks_,
                BatchOfCommitCallbacks(rb_args.commit_callbacks,
                                       rb_args.has_records))
          /\ rb_pc' = "idle"
          /\ rb_args' = NoArgs
          /\ rb_i' = 0
          /\ calls' = [calls EXCEPT ![Len(calls)].queued = TRUE,
                                    ![Len(calls)].returned = TRUE]
          /\ UNCHANGED <<ids, sent>>
  /\ UNCHANGED <<txns_applied_on_replicas_, callbacks_mutex_,
                 empty_buffer_queue_, dispatch_threads, invoked, acks,
                 received, aborted>>

\* lines 57-60: the batch of callbacks is queued under the lock
RB_Enqueue ==
  /\ ~aborted
  /\ rb_pc = "enqueue"
  /\ callbacks_mutex_ = "free"
  /\ txn_callbacks_' = Emplace(txn_callbacks_,
        BatchOfCommitCallbacks(rb_args.commit_callbacks, rb_args.has_records))
  /\ IF rb_args.has_records
     THEN /\ rb_pc' = "send"
          /\ calls' = [calls EXCEPT ![Len(calls)].queued = TRUE]
          /\ UNCHANGED <<rb_args, rb_i>>
     ELSE /\ rb_pc' = "idle"
          /\ rb_args' = NoArgs
          /\ rb_i' = 0
          /\ calls' = [calls EXCEPT ![Len(calls)].queued = TRUE,
                                    ![Len(calls)].returned = TRUE]
  /\ UNCHANGED <<txns_applied_on_replicas_, callbacks_mutex_, ids,
                 empty_buffer_queue_, dispatch_threads, invoked, sent, acks,
                 received, aborted>>

\* the envelopes Send hands to the messenger, one per replica
RecordsBatchMsgs(msg_id, batch_id, txns, call) ==
  {[dest |-> r, type |-> "RECORDS_BATCH", msg_id |-> msg_id,
    batch_id |-> batch_id, txns |-> txns, call |-> call] : r \in replicas_}

\* lines 63-79: the records go to every replica, the buffer to the pool
RB_Send(serialized) ==
  /\ ~aborted
  /\ rb_pc = "send"
  /\ LET m == GetNextMessageId(next_msg_id_)
         b == GetNextBatchId(next_batch_id_)
     IN  /\ next_msg_id_' = m.next
         /\ next_batch_id_' = b.next
         /\ issued_msg_ids' = Append(issued_msg_ids, m.id)
         /\ issued_batch_ids' = Append(issued_batch_ids, b.id)
         /\ sent' = sent \cup RecordsBatchMsgs(m.id, b.id,
                       SeqToSet(rb_args.commit_callbacks), Len(calls))
  /\ empty_buffer_queue_' = empty_buffer_queue_ + (IF serialized THEN 1 ELSE 0)
  /\ RB_Return
  /\ UNCHANGED <<ledger, callbacks_mutex_, dispatch_threads, invoked, acks,
                 received, aborted>>

\* ------------------------------------------------------------------ Handle
\* the acknowledgement sent only for a transaction the table knows
SendAckForMessage_KnownOnly(a, replica, txn) ==
  IF txn \in DOMAIN txns_applied_on_replicas_
  THEN a \cup {<<replica, txn>>}
  ELSE a

\* acknowledgement of receipt to the sender of the notification
SendAckForMessage(a, replica, txn) == a \cup {<<replica, txn>>}

\* a replica notifies only of a transaction whose records it was sent
CanNotify(replica, txn) ==
  \E m \in sent : m.dest = replica /\ txn \in m.txns

\* lines 90-96: the notification reaches Handle, which acknowledges it
H_Recv(h, replica, txn) ==
  /\ ~aborted
  /\ h_pc[h] = "idle"
  /\ CanNotify(replica, txn)
  /\ received' = received \cup {<<replica, txn>>}
  /\ acks' = SendAckForMessage(acks, replica, txn)
  /\ h_msg' = [h_msg EXCEPT ![h] = [replica |-> replica, txn |-> txn]]
  /\ h_pc' = [h_pc EXCEPT ![h] = "lock"]
  /\ UNCHANGED <<ledger, callbacks_mutex_, ids, empty_buffer_queue_,
                 commit_thread, calls, invoked, sent, aborted>>

\* lines 98-105: lock, record the replica, compare the sizes
H_Mark(h) ==
  /\ ~aborted
  /\ h_pc[h] = "lock"
  /\ callbacks_mutex_ = "free"
  /\ LET L == MarkStep(Ledger, h_msg[h].replica, h_msg[h].txn)
     IN  /\ txns_applied_on_replicas_' = L.tab
         /\ IF L.done
            THEN /\ callbacks_mutex_' = "free"
                 /\ h_pc' = [h_pc EXCEPT ![h] = "idle"]
            ELSE /\ callbacks_mutex_' = h
                 /\ h_pc' = [h_pc EXCEPT ![h] = "process"]
  /\ h_msg' = [h_msg EXCEPT ![h] = NoMsg]
  /\ UNCHANGED <<txn_callbacks_, ids, empty_buffer_queue_, commit_thread,
                 calls, invoked, sent, acks, received, aborted>>

\* lines 112-146, called at line 107 with the lock held: one pass of its
\* loops; on its return Handle leaves the locked block
ProcessTxnCallbacks(h) ==
  /\ ~aborted
  /\ h_pc[h] = "process"
  /\ callbacks_mutex_ = h
  /\ LET L == ProcessStep(Ledger)
     IN  /\ txn_callbacks_' = L.q
         /\ txns_applied_on_replicas_' = L.tab
         /\ invoked' = L.inv
         /\ IF L.done
            THEN /\ callbacks_mutex_' = "free"
                 /\ h_pc' = [h_pc EXCEPT ![h] = "idle"]
            ELSE UNCHANGED <<callbacks_mutex_, h_pc>>
  /\ UNCHANGED <<h_msg, ids, empty_buffer_queue_, commit_thread, calls, sent, acks,
                 received, aborted>>

\* ------------------------------------------------------------------- Next
Next ==
  \/ \E has_records \in BOOLEAN, n \in 0..MaxBatchSize, policy \in Policies :
        RB_Call(has_records, n, policy)
  \/ RB_Invoke
  \/ RB_Enqueue
  \/ \E serialized \in BOOLEAN : RB_Send(serialized)
  \/ \E h \in Handlers, replica \in replicas_, txn \in Txns :
        H_Recv(h, replica, txn)
  \/ \E h \in Handlers : H_Mark(h)
  \/ \E h \in Handlers : ProcessTxnCallbacks(h)

Spec == Init /\ [][Next]_vars

\* ------------------------------------------- the identifier counters alone
\* The counters anywhere in their range, as after any number of earlier
\* calls; issued_batch_ids and issued_msg_ids log the calls made from here.
InitIds ==
  /\ InitLedger
  /\ next_batch_id_ \in (0..(IdMod - 1)) \ {INVALID_RECORD_BATCH_ID}
  /\ next_msg_id_ \in 0..(IdMod - 1)

CallGetNextBatchId ==
  /\ Len(issued_batch_ids) < MaxIdCalls
  /\ LET b == GetNextBatchId(next_batch_id_)
     IN  /\ next_batch_id_' = b.next
         /\ issued_batch_ids' = Append(issued_batch_ids, b.id)
  /\ UNCHANGED <<ledger, callbacks_mutex_, next_msg_id_, issued_msg_ids,
                 empty_buffer_queue_, commit_thread, dispatch_threads, calls,
                 invoked, sent, acks, received, aborted>>

CallGetNextMessageId ==
  /\ Len(issued_msg_ids) < MaxIdCalls
  /\ LET m == GetNextMessageId(next_msg_id_)
     IN  /\ next_msg_id_' = m.next
         /\ issued_msg_ids' = Append(issued_msg_ids, m.id)
  /\ UNCHANGED <<ledger, callbacks_mutex_, next_batch_id_, issued_batch_ids,
                 empty_buffer_queue_, commit_thread, dispatch_threads, calls,
                 invoked, sent, acks, received, aborted>>

NextIds == CallGetNextBatchId \/ CallGetNextMessageId

SpecIds == InitIds /\ [][NextIds]_vars

\* ------------------------------------------------------ about the history
\* the call that handed in the callback of transaction txn
CallOf(txn) ==
  CHOOSE i \in 1..Len(calls) : txn \in SeqToSet(calls[i].commit_callbacks)

CallbacksOf(i) == SeqToSet(calls[i].commit_callbacks)

IsSyncWithRecords(c) == c.policy = "SYNC" /\ c.has_records

Invoked(txn) == txn \in SeqToSet(invoked)

NotifiedByAll(txn) == \A r \in replicas_ : <<r, txn>> \in received

QueuedCallbacks ==
  UNION {SeqToSet(txn_callbacks_[k].callbacks_) : k \in 1..Len(txn_callbacks_)}

\* the callbacks waiting in the queue, in the order of their release
RECURSIVE Flatten(_)
Flatten(q) == IF q = <<>> THEN <<>> ELSE Head(q).callbacks_ \o Flatten(Tail(q))

\* callback tj was not invoked, or after every callback of call i
InvokedAfterCall(i, tj) ==
  Invoked(tj) =>
     \A ti \in CallbacksOf(i) : Invoked(ti) /\ Pos(invoked, ti) < Pos(invoked, tj)

\* ------------------------------------------------------------------ claims

\* C1: a callback of a SYNC batch with records has been invoked only if
\* every configured replica has sent an applied-notification for that
\* callback's transaction (one replica's notification is not enough).
C1_SyncWaitsForAllReplicas ==
  \A k \in 1..Len(invoked) :
     IsSyncWithRecords(calls[CallOf(invoked[k])]) => NotifiedByAll(invoked[k])

\* a SYNC callback has fired, and another one is held after one replica only
C1_Witness ==
  /\ \E t \in SeqToSet(invoked) : IsSyncWithRecords(calls[CallOf(t)])
  /\ \E t \in QueuedCallbacks :
        /\ t \in DOMAIN txns_applied_on_replicas_
        /\ Cardinality(txns_applied_on_replicas_[t]) = 1

\* C2: head-of-line blocking: of two SYNC batches in the queue, no callback
\* of the later one is invoked unless every callback of the earlier one was
\* invoked before it, even if the later one is acknowledged first.
C2_HeadOfLineBlocking ==
  \A i, j \in 1..Len(calls) :
     (i < j /\ calls[i].queued /\ calls[j].queued) =>
        \A tj \in CallbacksOf(j) : Invoked(tj) =>
           \A ti \in CallbacksOf(i) :
              Invoked(ti) /\ Pos(invoked, ti) < Pos(invoked, tj)

\* the later batch is acknowledged by all replicas, the earlier one waits
C2_Witness ==
  \E i, j \in 1..Len(calls) :
     /\ i < j /\ calls[i].queued /\ calls[j].queued
     /\ \E ti \in CallbacksOf(i) : ~Invoked(ti) /\ ti \in QueuedCallbacks
     /\ \E tj \in CallbacksOf(j) :
           /\ AllReplicasApplied(txns_applied_on_replicas_, tj)
           /\ ~Invoked(tj)
           /\ \A h \in Handlers : h_pc[h] = "idle"

\* C3: no commit callback is invoked more than once, whatever the
\* interleaving of the commit path with the dispatch threads and whatever
\* notifications are repeated or late.
C3_AtMostOnce == \A t \in Txns : Count(invoked, t) <= 1

\* a notification was handled after its callback fired while the other
\* dispatch thread and the commit thread are inside their calls
C3_Witness ==
  \E t \in SeqToSet(invoked) :
     /\ t \in DOMAIN txns_applied_on_replicas_
     /\ IsSyncWithRecords(calls[CallOf(t)])
     /\ \E h \in Handlers : h_pc[h] = "lock" /\ h_msg[h].txn = t
     /\ rb_pc # "idle"

\* C4: a call under ASYNC or without records has, when it returns, invoked
\* each of its callbacks exactly once and in the order supplied, and has
\* put no batch in the queue.
C4_InvokedAtOnce ==
  \A i \in 1..Len(calls) :
     LET c == calls[i] IN
     (c.policy = "ASYNC" \/ ~c.has_records) =>
        /\ ~c.queued
        /\ c.returned =>
             /\ \A k \in 1..Len(c.commit_callbacks) :
                   Count(invoked, c.commit_callbacks[k]) = 1
             /\ \A k, l \in 1..Len(c.commit_callbacks) :
                   k < l => Pos(invoked, c.commit_callbacks[k])
                               < Pos(invoked, c.commit_callbacks[l])

\* a SYNC call without records returned with its two callbacks invoked
\* while an earlier batch waits in the queue
C4_Witness ==
  \E i \in 1..Len(calls) :
     /\ calls[i].policy = "SYNC" /\ ~calls[i].has_records
     /\ calls[i].returned
     /\ Len(calls[i].commit_callbacks) = 2
     /\ txn_callbacks_ # <<>>

\* C5 as stated: whenever a callback of a SYNC batch has been invoked,
\* every transaction of that batch is acknowledged by all the replicas.
C5_Original ==
  \A i \in 1..Len(calls) :
     (IsSyncWithRecords(calls[i]) /\ \E t \in CallbacksOf(i) : Invoked(t)) =>
        \A t \in CallbacksOf(i) : NotifiedByAll(t)

\* C5 amended: whenever a callback of a SYNC batch has been invoked, its
\* own transaction and the transactions of the callbacks supplied before it
\* in the batch are acknowledged by all the replicas (those of the
\* callbacks after it need not be).
C5_Amended ==
  \A i \in 1..Len(calls) :
     IsSyncWithRecords(calls[i]) =>
        \A k \in 1..Len(calls[i].commit_callbacks) :
           Invoked(calls[i].commit_callbacks[k]) =>
              \A l \in 1..k : NotifiedByAll(calls[i].commit_callbacks[l])

\* the second callback of a SYNC batch of two has been invoked
C5_Witness ==
  \E i \in 1..Len(calls) :
     /\ IsSyncWithRecords(calls[i])
     /\ Len(calls[i].commit_callbacks) = 2
     /\ Invoked(calls[i].commit_callbacks[2])

\* C6: when no drain pass runs, the first callback waiting in the queue is
\* not acknowledged by all replicas: the Handle call that completes the
\* head releases, in enqueue order, all there is to release, also batches
\* acknowledged earlier; so once every notification of the queued
\* transactions is handled, no callback waits.
C6_ReleaseOnCompletion ==
  /\ callbacks_mutex_ = "free" =>
        LET f == Flatten(txn_callbacks_) IN
        /\ f # <<>> => ~AllReplicasApplied(txns_applied_on_replicas_, Head(f))
        /\ ( /\ \A h \in Handlers : h_pc[h] = "idle"
             /\ \A t \in QueuedCallbacks : NotifiedByAll(t) ) => f = <<>>
  /\ \A k, l \in 1..Len(invoked) :
        ( /\ k < l
          /\ calls[CallOf(invoked[k])].queued
          /\ calls[CallOf(invoked[l])].queued ) => invoked[k] < invoked[l]

\* a drain pass has released the first batch and now finds at the head a
\* second batch that the replicas had acknowledged before
C6_Witness ==
  \E h \in Handlers :
     /\ h_pc[h] = "process"
     /\ Len(calls) = 2 /\ calls[1].queued /\ calls[2].queued
     /\ calls[1].commit_callbacks # <<>>
     /\ \A t \in CallbacksOf(1) : Invoked(t)
     /\ Len(txn_callbacks_) = 1
     /\ txn_callbacks_[1].callbacks_ # <<>>
     /\ AllReplicasApplied(txns_applied_on_replicas_,
                           Head(txn_callbacks_[1].callbacks_))

\* C7 as stated: of two calls, whatever their policies and records, no
\* callback of the later one is invoked before every callback of the
\* earlier one.
C7_Original ==
  \A i, j \in 1..Len(calls) :
     i < j => \A tj \in CallbacksOf(j) : InvokedAfterCall(i, tj)

\* C7 amended: the order of the calls is kept except where the earlier call
\* is SYNC with records (its callbacks wait in the queue) and the later is
\* ASYNC or carries no records (its callbacks are invoked at once).
C7_Amended ==
  \A i, j \in 1..Len(calls) :
     (i < j /\ ~(IsSyncWithRecords(calls[i]) /\ ~IsSyncWithRecords(calls[j]))) =>
        \A tj \in CallbacksOf(j) : InvokedAfterCall(i, tj)

\* callbacks of an ASYNC call and of a later SYNC call have been invoked
C7_Witness ==
  /\ Len(calls) = 2
  /\ calls[1].policy = "ASYNC" /\ calls[1].commit_callbacks # <<>>
  /\ IsSyncWithRecords(calls[2])
  /\ \E tj \in CallbacksOf(2) : Invoked(tj)

\* C8 as stated: the batch identifiers of successive calls are strictly
\* increasing, never reused and never the sentinel, also across the
\* wrap-around of the counter.
C8_Original ==
  /\ \A k \in 1..Len(issued_batch_ids) :
        issued_batch_ids[k] # INVALID_RECORD_BATCH_ID
  /\ \A k, l \in 1..Len(issued_batch_ids) :
        k < l => issued_batch_ids[k] < issued_batch_ids[l]

\* C8 amended: a batch identifier is never the sentinel, and each is the
\* one before plus one, except that the identifier after the largest value
\* of the counter is 1: the counter wraps around and skips the sentinel 0,
\* and from there on identifiers are smaller than earlier ones and repeat.
C8_Amended ==
  /\ \A k \in 1..Len(issued_batch_ids) :
        issued_batch_ids[k] # INVALID_RECORD_BATCH_ID
  /\ \A k \in 1..(Len(issued_batch_ids) - 1) :
        IF issued_batch_ids[k] = IdMod - 1
        THEN issued_batch_ids[k + 1] = 1
        ELSE issued_batch_ids[k + 1] = issued_batch_ids[k] + 1
  /\ next_batch_id_ # INVALID_RECORD_BATCH_ID

\* the counter has wrapped around and skipped the sentinel
C8_Witness ==
  \E k \in 1..(Len(issued_batch_ids) - 1) :
     issued_batch_ids[k] = IdMod - 1 /\ issued_batch_ids[k + 1] = 1

\* the ledger after the same notification is handled once, and twice
AfterFirst(replica, txn) == HandleLocked(Ledger, replica, txn)
AfterSecond(replica, txn) == HandleLocked(AfterFirst(replica, txn), replica, txn)

\* C9 as stated: a notification delivered twice invokes nothing the second
\* time and leaves the table as it was after the first delivery.
C9_Original ==
  callbacks_mutex_ = "free" =>
     \A r \in replicas_, t \in Txns :
        CanNotify(r, t) =>
           /\ AfterSecond(r, t).inv = AfterFirst(r, t).inv
           /\ AfterSecond(r, t).tab = AfterFirst(r, t).tab

\* C9 amended: a notification delivered twice invokes no callback the
\* second time, and the table is as after the first delivery, unless the
\* first delivery released that transaction's callback and erased its
\* entry: then the second delivery creates the entry again, holding that
\* replica alone.
C9_Amended ==
  callbacks_mutex_ = "free" =>
     \A r \in replicas_, t \in Txns :
        CanNotify(r, t) =>
           /\ AfterSecond(r, t).inv = AfterFirst(r, t).inv
           /\ AfterSecond(r, t).q = AfterFirst(r, t).q
           /\ IF Count(AfterFirst(r, t).inv, t) > Count(invoked, t)
              THEN /\ t \notin DOMAIN AfterFirst(r, t).tab
                   /\ AfterSecond(r, t).tab =
                         [x \in (DOMAIN AfterFirst(r, t).tab) \cup {t} |->
                            IF x = t THEN {r} ELSE AfterFirst(r, t).tab[x]]
              ELSE AfterSecond(r, t).tab = AfterFirst(r, t).tab

\* a notification was handled again after its callback had been released:
\* the entry is back with one replica, the callback invoked once
C9_Witness ==
  /\ callbacks_mutex_ = "free"
  /\ \E t \in SeqToSet(invoked) :
        /\ IsSyncWithRecords(calls[CallOf(t)])
        /\ t \in DOMAIN txns_applied_on_replicas_
        /\ Cardinality(txns_applied_on_replicas_[t]) = 1
        /\ Count(invoked, t) = 1

\* the envelopes sent by call i
MsgsOf(i) == {m \in sent : m.call = i}

\* C10: a call with records, ASYNC or SYNC, has on its return sent one
\* RECORDS_BATCH envelope to every replica, all with one batch identifier
\* and one message identifier that no other call has used; a call without
\* records sends nothing and takes no identifier.
C10_OneBatchPerCall ==
  /\ \A i \in 1..Len(calls) :
        IF calls[i].has_records /\ calls[i].returned
        THEN /\ {m.dest : m \in MsgsOf(i)} = replicas_
             /\ Cardinality(MsgsOf(i)) = Cardinality(replicas_)
             /\ \A m \in MsgsOf(i) :
                   /\ m.type = "RECORDS_BATCH"
                   /\ m.batch_id # INVALID_RECORD_BATCH_ID
                   /\ \A n \in sent :
                        /\ (n.batch_id = m.batch_id) = (n.call = i)
                        /\ (n.msg_id = m.msg_id) = (n.call = i)
        ELSE MsgsOf(i) = {}
  /\ Len(issued_batch_ids) = Cardinality({i \in 1..Len(calls) : MsgsOf(i) # {}})
  /\ Len(issued_msg_ids) = Len(issued_batch_ids)
  /\ {m.batch_id : m \in sent} = SeqToSet(issued_batch_ids)
  /\ {m.msg_id : m \in sent} = SeqToSet(issued_msg_ids)

\* an ASYNC call with records and a call without records have returned
C10_Witness ==
  /\ Len(calls) = 2
  /\ calls[1].policy = "ASYNC" /\ calls[1].has_records /\ calls[1].returned
  /\ ~calls[2].has_records /\ calls[2].returned
  /\ calls[2].commit_callbacks # <<>>
  /\ sent # {}

\* C11: a call of ReplicateBatchOfRecords with policy DISABLE fails the
\* assertion of line 35 and the program stops there: it is the last call,
\* none of its callbacks has been invoked or queued, no tracking entry
\* exists for them, no message of the call has been sent and the call has
\* taken no batch identifier and no message identifier.
C11_DisableAborts ==
  \A i \in 1..Len(calls) :
     calls[i].policy = "DISABLE" =>
        /\ aborted
        /\ i = Len(calls)
        /\ ~calls[i].queued /\ ~calls[i].returned
        /\ \A t \in CallbacksOf(i) :
              /\ ~Invoked(t)
              /\ t \notin QueuedCallbacks
              /\ t \notin DOMAIN txns_applied_on_replicas_
        /\ MsgsOf(i) = {}
        /\ Len(issued_batch_ids) <=
              Cardinality({j \in 1..Len(calls) :
                             calls[j].policy # "DISABLE" /\ calls[j].has_records})
        /\ Len(issued_msg_ids) <=
              Cardinality({j \in 1..Len(calls) :
                             calls[j].policy # "DISABLE" /\ calls[j].has_records})

\* a DISABLE call with records and a callback, after a call that has sent
C11_Witness ==
  /\ aborted
  /\ Len(calls) = 2
  /\ calls[2].policy = "DISABLE" /\ calls[2].has_records
  /\ calls[2].commit_callbacks # <<>>
  /\ calls[1].returned /\ MsgsOf(1) # {}

\* C12: a stalled replica: as long as some configured replica has sent no
\* applied-notification for a transaction of a queued SYNC batch, neither
\* the callback of that transaction nor any callback of a SYNC batch queued
\* after it has been invoked, whatever other notifications have arrived
\* (no step of the manager is a timeout or a cancellation).
C12_StalledReplicaBlocks ==
  \A i \in 1..Len(calls) :
     (IsSyncWithRecords(calls[i]) /\ calls[i].queued) =>
        \A t \in CallbacksOf(i) :
           ~NotifiedByAll(t) =>
              /\ ~Invoked(t)
              /\ \A j \in (i + 1)..Len(calls) :
                    IsSyncWithRecords(calls[j]) =>
                       \A u \in CallbacksOf(j) : ~Invoked(u)

\* one replica is silent on the first batch; every other notification has
\* arrived and has been handled, and both batches are still waiting
C12_Witness ==
  /\ Len(calls) = 2
  /\ IsSyncWithRecords(calls[1]) /\ IsSyncWithRecords(calls[2])
  /\ calls[1].returned /\ calls[2].returned
  /\ \A h \in Handlers : h_pc[h] = "idle"
  /\ \E t \in CallbacksOf(1), u \in CallbacksOf(2), r \in replicas_ :
        /\ <<r, t>> \notin received
        /\ t \in DOMAIN txns_applied_on_replicas_
        /\ u \in DOMAIN txns_applied_on_replicas_
        /\ txns_applied_on_replicas_[t] = replicas_ \ {r}
        /\ txns_applied_on_replicas_[u] = replicas_
        /\ ~Invoked(t) /\ ~Invoked(u)
        /\ t \in QueuedCallbacks /\ u \in QueuedCallbacks

\* the callbacks of call i that are waiting in the batch at place k
WaitingOf(i, k) == CallbacksOf(i) \cap SeqToSet(txn_callbacks_[k].callbacks_)

\* C13 as stated: when no drain pass is in progress, no batch in the queue
\* has some of its callbacks invoked and removed while others of the same
\* batch are still waiting in it.
C13_Original ==
  callbacks_mutex_ = "free" =>
     \A k \in 1..Len(txn_callbacks_), i \in 1..Len(calls) :
        ~ /\ WaitingOf(i, k) # {}
          /\ \E u \in CallbacksOf(i) \ WaitingOf(i, k) : Invoked(u)

\* C13 amended: when no drain pass is in progress a batch may be left in
\* the queue partly released, but only the batch at the head and only from
\* its front: the callbacks still waiting in a batch are the last ones of
\* the call in the order supplied and none of them has been invoked, the
\* ones before them have all been invoked, the first one waiting at the
\* head lacks a replica, and a batch behind the head holds all its callbacks.
C13_Amended ==
  callbacks_mutex_ = "free" =>
     \A k \in 1..Len(txn_callbacks_), i \in 1..Len(calls) :
        WaitingOf(i, k) # {} =>
           LET cbs == calls[i].commit_callbacks
               rem == txn_callbacks_[k].callbacks_
               gone == Len(cbs) - Len(rem)
           IN  /\ gone >= 0
               /\ rem = SubSeq(cbs, gone + 1, Len(cbs))
               /\ \A m \in 1..gone : Invoked(cbs[m])
               /\ \A m \in 1..Len(rem) : ~Invoked(rem[m])
               /\ k = 1 => ~AllReplicasApplied(txns_applied_on_replicas_, Head(rem))
               /\ k > 1 => gone = 0

\* the first callback of a batch of two has been invoked and removed, the
\* second one waits at the head, and no drain pass is in progress
C13_Witness ==
  /\ callbacks_mutex_ = "free"
  /\ \A h \in Handlers : h_pc[h] = "idle"
  /\ \E i \in 1..Len(calls) :
        /\ Len(calls[i].commit_callbacks) = 2
        /\ Invoked(calls[i].commit_callbacks[1])
        /\ txn_callbacks_ # <<>>
        /\ Head(txn_callbacks_).callbacks_ = <<calls[i].commit_callbacks[2]>>

\* C14: the callback queue is drained from the front only: every step that
\* changes the queue either appends one batch at the back, or invokes and
\* removes the first callback of the batch at the head, or pops the batch
\* at the head, and then every callback of that batch has been invoked; a
\* batch behind the head is never removed, changed or moved.
C14_DrainFromFront ==
  [][txn_callbacks_' # txn_callbacks_ =>
       \/ /\ Len(txn_callbacks_') = Len(txn_callbacks_) + 1
          /\ SubSeq(txn_callbacks_', 1, Len(txn_callbacks_)) = txn_callbacks_
       \/ /\ txn_callbacks_ # <<>>
          /\ Head(txn_callbacks_).callbacks_ # <<>>
          /\ txn_callbacks_' =
                <<[Head(txn_callbacks_) EXCEPT
                     !.callbacks_ = Tail(Head(txn_callbacks_).callbacks_)]>>
                \o Tail(txn_callbacks_)
          /\ invoked' = Append(invoked, Head(Head(txn_callbacks_).callbacks_))
       \/ /\ txn_callbacks_ # <<>>
          /\ txn_callbacks_' = Tail(txn_callbacks_)
          /\ \A t \in SeqToSet(Head(txn_callbacks_).callbacks_) :
                t \in SeqToSet(invoked')
  ]_vars

\* the first of two SYNC batches has been released and popped, the second
\* one is whole at the head
C14_Witness ==
  /\ Len(calls) = 2
  /\ IsSyncWithRecords(calls[1]) /\ IsSyncWithRecords(calls[2])
  /\ calls[1].commit_callbacks # <<>>
  /\ \A t \in CallbacksOf(1) : Invoked(t)
  /\ Len(txn_callbacks_) = 1
  /\ txn_callbacks_[1].callbacks_ = calls[2].commit_callbacks
  /\ calls[2].commit_callbacks # <<>>

\* C15: within one SYNC batch the callbacks are invoked in the order they
\* were supplied: a callback is not invoked while one supplied before it in
\* the same batch is still waiting, even if its own transaction is already
\* acknowledged by all replicas, and the log of invocations has the
\* callbacks of a batch in their order.
C15_InOrderWithinBatch ==
  \A i \in 1..Len(calls) :
     IsSyncWithRecords(calls[i]) =>
        LET cbs == calls[i].commit_callbacks IN
        \A k \in 1..Len(cbs), l \in 1..Len(cbs) :
           (k < l /\ Invoked(cbs[l])) =>
              /\ cbs[k] \notin QueuedCallbacks
              /\ Invoked(cbs[k])
              /\ Pos(invoked, cbs[k]) < Pos(invoked, cbs[l])

\* the second transaction of a batch is acknowledged by all replicas and
\* its callback waits behind the first one, which lacks a replica
C15_Witness ==
  /\ callbacks_mutex_ = "free"
  /\ \A h \in Handlers : h_pc[h] = "idle"
  /\ \E i \in 1..Len(calls) :
        /\ IsSyncWithRecords(calls[i])
        /\ Len(calls[i].commit_callbacks) = 2
        /\ calls[i].commit_callbacks[2] \in DOMAIN txns_applied_on_replicas_
        /\ txns_applied_on_replicas_[calls[i].commit_callbacks[2]] = replicas_
        /\ ~NotifiedByAll(calls[i].commit_callbacks[1])
        /\ ~Invoked(calls[i].commit_callbacks[1])
        /\ ~Invoked(calls[i].commit_callbacks[2])
        /\ Head(txn_callbacks_).callbacks_ = calls[i].commit_callbacks

C17_TableEntriesOwned ==
  /\ [](\A t \in DOMAIN txns_applied_on_replicas_ :
           t \in QueuedCallbacks \/ Invoked(t))
  /\ [][\A t \in QueuedCallbacks :
          (t \notin SeqToSet(invoked) /\ t \in SeqToSet(invoked')) =>
             /\ t \in DOMAIN txns_applied_on_replicas_
             /\ t \notin DOMAIN txns_applied_on_replicas_'
             /\ t \notin UNION {SeqToSet(txn_callbacks_'[k].callbacks_) :
                                  k \in 1..Len(txn_callbacks_')}]_vars

\* the table holds the entry of a waiting callback and, from a late
\* notification, an entry of a SYNC callback that has been invoked
C17_Witness ==
  \E t \in DOMAIN txns_applied_on_replicas_,
     u \in DOMAIN txns_applied_on_replicas_ :
     /\ t \in QueuedCallbacks /\ ~Invoked(t)
     /\ Invoked(u) /\ IsSyncWithRecords(calls[CallOf(u)])

\* C18: the callback queue and the applied-tracking table are read and
\* changed under callbacks_mutex_ only. A handler is in ProcessTxnCallbacks
\* exactly while it holds the lock, from its size comparison to the return
\* of the drain pass; the enqueue of ReplicateBatchOfRecords and the locked
\* block of a Handle call start only when the lock is free; while a handler
\* holds the lock, the ledger changes by steps of that handler only.
C18_LedgerUnderLock ==
  /\ [](/\ callbacks_mutex_ \in Handlers \cup {"free"}
        /\ \A h \in Handlers : (h_pc[h] = "process") = (callbacks_mutex_ = h))
  /\ [][/\ ( \/ rb_pc = "enqueue" /\ rb_pc' # "enqueue"
             \/ \E h \in Handlers : h_pc[h] = "lock" /\ h_pc'[h] # "lock" )
           => callbacks_mutex_ = "free"
        /\ (ledger' # ledger /\ callbacks_mutex_ # "free") =>
              /\ commit_thread' = commit_thread
              /\ calls' = calls
              /\ \A h \in Handlers \ {callbacks_mutex_} :
                    h_pc'[h] = h_pc[h] /\ h_msg'[h] = h_msg[h]
        /\ (callbacks_mutex_ # "free" /\ callbacks_mutex_' # callbacks_mutex_) =>
              /\ callbacks_mutex_' = "free"
              /\ h_pc'[callbacks_mutex_] = "idle"
              /\ \/ txn_callbacks_ = <<>>
                 \/ Head(txn_callbacks_).callbacks_ # <<>>]_vars

\* a drain pass in progress, with the commit thread waiting to enqueue and
\* another Handle call waiting for the lock
C18_Witness ==
  /\ rb_pc = "enqueue"
  /\ \E h1 \in Handlers, h2 \in Handlers :
        /\ callbacks_mutex_ = h1 /\ h_pc[h1] = "process"
        /\ h_pc[h2] = "lock"
        /\ txn_callbacks_ # <<>>

\* C19: Handle acknowledges the receipt of every applied-notification to
\* its sender before it reads or updates the ledger, whatever the ledger
\* holds: a Handle call that is about to take the lock has sent its
\* acknowledgement, every notification received has been acknowledged, and
\* every replica recorded in the table was acknowledged for that transaction.
C19_AckBeforeLedger ==
  /\ \A h \in Handlers :
        h_pc[h] = "lock" => <<h_msg[h].replica, h_msg[h].txn>> \in acks
  /\ received \subseteq acks
  /\ \A t \in DOMAIN txns_applied_on_replicas_ :
        \A r \in txns_applied_on_replicas_[t] : <<r, t>> \in acks

\* two Handle calls have acknowledged and wait for the lock: one with a
\* second notification for a callback that has fired, one with the first
\* notification of a transaction the table does not know
C19_Witness ==
  \E h1 \in Handlers, h2 \in Handlers :
     /\ h_pc[h1] = "lock" /\ h_pc[h2] = "lock"
     /\ Invoked(h_msg[h1].txn)
     /\ h_msg[h1].txn \in DOMAIN txns_applied_on_replicas_
     /\ h_msg[h1].replica \in txns_applied_on_replicas_[h_msg[h1].txn]
     /\ h_msg[h2].txn \notin DOMAIN txns_applied_on_replicas_
     /\ ~Invoked(h_msg[h2].txn)
     /\ <<h_msg[h1].replica, h_msg[h1].txn>> \in acks
     /\ <<h_msg[h2].replica, h_msg[h2].txn>> \in acks

\* C20 as stated: an applied-notification for a transaction whose callback
\* has fired invokes no callback, and all it does to the ledger is to add
\* the sender to the tracking entry of that transaction, which no queued
\* callback will look up.
C20_Original ==
  callbacks_mutex_ = "free" =>
     \A r \in replicas_, t \in Txns :
        (CanNotify(r, t) /\ Invoked(t)) =>
           LET L1 == HandleLocked(Ledger, r, t)
           IN  /\ L1.inv = invoked
               /\ L1.q = txn_callbacks_
               /\ L1.tab = MarkApplied(txns_applied_on_replicas_, t, r)
               /\ t \notin QueuedCallbacks

\* C20 amended: an applied-notification for a transaction whose callback
\* has fired invokes no callback and removes no waiting callback; to the
\* table it adds the sender in the entry of that transaction, which no
\* queued callback looks up; and if it completes that entry, the drain pass
\* it starts pops the batches without callbacks at the head of the queue.
C20_Amended ==
  callbacks_mutex_ = "free" =>
     \A r \in replicas_, t \in Txns :
        (CanNotify(r, t) /\ Invoked(t)) =>
           LET L1 == HandleLocked(Ledger, r, t)
               popped == Len(txn_callbacks_) - Len(L1.q)
           IN  /\ L1.inv = invoked
               /\ popped >= 0
               /\ L1.q = SubSeq(txn_callbacks_, popped + 1, Len(txn_callbacks_))
               /\ \A k \in 1..popped : txn_callbacks_[k].callbacks_ = <<>>
               /\ popped > 0 =>
                     MarkApplied(txns_applied_on_replicas_, t, r)[t] = replicas_
               /\ L1.tab = MarkApplied(txns_applied_on_replicas_, t, r)
               /\ t \notin QueuedCallbacks

\* late notifications of all the replicas for a SYNC callback that has
\* fired have been handled, while another callback waits in the queue
C20_Witness ==
  /\ callbacks_mutex_ = "free"
  /\ \A h \in Handlers : h_pc[h] = "idle"
  /\ QueuedCallbacks # {}
  /\ \E t \in DOMAIN txns_applied_on_replicas_ :
        /\ Invoked(t)
        /\ IsSyncWithRecords(calls[CallOf(t)])
        /\ txns_applied_on_replicas_[t] = replicas_

\* C21: for a SYNC batch with records the batch of callbacks is in the
\* callback queue before its records are sent to any replica: a call whose
\* records are on their way has queued its callbacks, and whenever an
\* applied-notification for one of its transactions has been received, is
\* waiting for the lock, or is recorded in the table, the callback of that
\* transaction is in the queue or has been invoked.
C21_EnqueueBeforeSend ==
  /\ \A i \in 1..Len(calls) :
        (IsSyncWithRecords(calls[i]) /\ MsgsOf(i) # {}) => calls[i].queued
  /\ \A h \in Handlers :
        (h_pc[h] = "lock" /\ IsSyncWithRecords(calls[CallOf(h_msg[h].txn)])) =>
           h_msg[h].txn \in QueuedCallbacks \/ Invoked(h_msg[h].txn)
  /\ \A n \in received :
        IsSyncWithRecords(calls[CallOf(n[2])]) =>
           n[2] \in QueuedCallbacks \/ Invoked(n[2])
  /\ \A t \in DOMAIN txns_applied_on_replicas_ :
        IsSyncWithRecords(calls[CallOf(t)]) =>
           t \in QueuedCallbacks \/ Invoked(t)

\* a Handle call is about to take the lock with the first notification for
\* a transaction of a SYNC batch: the callback is waiting in the queue
C21_Witness ==
  \E h \in Handlers :
     /\ h_pc[h] = "lock"
     /\ IsSyncWithRecords(calls[CallOf(h_msg[h].txn)])
     /\ calls[CallOf(h_msg[h].txn)].returned
     /\ h_msg[h].txn \notin DOMAIN txns_applied_on_replicas_
     /\ h_msg[h].txn \in QueuedCallbacks
     /\ ~Invoked(h_msg[h].txn)

\* C22: in every reachable state every batch in the callback queue has
\* has_records_ = true: only SYNC calls that carry records queue a batch,
\* so a drain pass never finds a record-less batch at the head and the
\* branch that releases such a batch unconditionally is never taken.
C22_QueuedBatchesHaveRecords ==
  /\ \A k \in 1..Len(txn_callbacks_) : txn_callbacks_[k].has_records_
  /\ \A i \in 1..Len(calls) : calls[i].queued => IsSyncWithRecords(calls[i])
  /\ Len(txn_callbacks_) <=
        Cardinality({i \in 1..Len(calls) : IsSyncWithRecords(calls[i])})

\* a SYNC call without records has returned, its callbacks invoked at once
\* and not queued, while a drain pass looks at a queue that holds a batch
C22_Witness ==
  /\ txn_callbacks_ # <<>>
  /\ \E h \in Handlers : h_pc[h] = "process"
  /\ \E i \in 1..Len(calls) :
        /\ calls[i].policy = "SYNC" /\ ~calls[i].has_records
        /\ calls[i].commit_callbacks # <<>>
        /\ calls[i].returned /\ ~calls[i].queued
        /\ \A t \in CallbacksOf(i) : Invoked(t)

====
